---- MODULE Spec2Model ----
(***************************************************************************)
(* SQNet (pytorchcv/models/others/_sqnet.py): the construction of the      *)
(* network (layers, channel widths, parameters) and the forward pass as a  *)
(* sequence of module applications over tensor shapes.  A tensor is        *)
(* modelled by its shape (n, c, h, w) and an error field that a failing    *)
(* library call sets; values of the elements play no part in any property. *)
(***************************************************************************)
EXTENDS Integers, Sequences, FiniteSets, TLC

VARIABLES
    args,       \* constructor arguments of the model under test
    todo,       \* constructor arguments of the models still to be built and run
    net,        \* the constructed SQNet (its module tree)
    input,      \* the input batch given to forward
    x,          \* the tensor SQNet.forward / Hourglass.forward currently holds
    down_outs,  \* Hourglass.forward: outputs of the encoder stages
    pc,         \* position in the forward pass
    d,          \* index (1-based) of the running encoder stage
    j,          \* index (1-based) of the running unit inside that stage
    i,          \* loop index of the second loop of Hourglass.forward (0-based)
    log,        \* modules applied so far, with the tensors they saw
    merges,     \* Hourglass._merge calls made so far
    results     \* outcomes of the passes already finished

vars == <<args, todo, net, input, x, down_outs, pc, d, j, i, log, merges, results>>

----------------------------------------------------------------------------
(* Bounds of the model                                                     *)

MaxH == 32
MaxW == 17
MaxBatch == 2
InChannelsSet == {1, 3}
NumClassesSet == {2, 19}
InSizes == {<<1024, 2048>>, <<16, 16>>}
PairHeights == {15, 16, 20}
PairWidths == {16}

----------------------------------------------------------------------------
(* Tensors and the library layers                                          *)

Tensor(n, c, h, w) == [n |-> n, c |-> c, h |-> h, w |-> w, err |-> "none"]

Fail(t, e) == [t EXCEPT !.err = e]

IsOk(t) == t.err = "none"

\* output length of a convolution / pooling window along one axis
ConvOut(h, k, s, p, dil) == ((h + 2 * p - dil * (k - 1) - 1) \div s) + 1

\* output length of a transposed convolution along one axis
DeconvOut(h, k, s, p, op, dil) == (h - 1) * s - 2 * p + dil * (k - 1) + op + 1

ConvBlock(in_channels, out_channels, kernel_size, stride, padding, dilation, bias, use_bn, activation) ==
    [kind |-> "conv", in_channels |-> in_channels, out_channels |-> out_channels,
     kernel_size |-> kernel_size, stride |-> stride, padding |-> padding,
     dilation |-> dilation, bias |-> bias, use_bn |-> use_bn, activation |-> activation]

conv1x1_block(in_channels, out_channels, bias, use_bn, activation) ==
    ConvBlock(in_channels, out_channels, 1, 1, 0, 1, bias, use_bn, activation)

conv3x3_block(in_channels, out_channels, stride, padding, dilation, bias, use_bn, activation) ==
    ConvBlock(in_channels, out_channels, 3, stride, padding, dilation, bias, use_bn, activation)

deconv3x3_block(in_channels, out_channels, stride, bias, use_bn, activation) ==
    [kind |-> "deconv", in_channels |-> in_channels, out_channels |-> out_channels,
     kernel_size |-> 3, stride |-> stride, padding |-> 1, out_padding |-> 1,
     dilation |-> 1, bias |-> bias, use_bn |-> use_bn, activation |-> activation]

MaxPool2d(kernel_size, stride) ==
    [kind |-> "maxpool", kernel_size |-> kernel_size, stride |-> stride]

\* nn.Sequential.add_module: a Sequential is the ordered list of (name, module)
add_module(seq, name, module) == Append(seq, [name |-> name, module |-> module])

ConvBlockForward(cv, t) ==
    IF ~IsOk(t) THEN t
    ELSE IF t.c # cv.in_channels THEN Fail(t, "channels")
    ELSE LET oh == ConvOut(t.h, cv.kernel_size, cv.stride, cv.padding, cv.dilation)
             ow == ConvOut(t.w, cv.kernel_size, cv.stride, cv.padding, cv.dilation)
         IN IF oh < 1 \/ ow < 1 THEN Fail(t, "size")
            ELSE [t EXCEPT !.c = cv.out_channels, !.h = oh, !.w = ow]

DeconvBlockForward(dc, t) ==
    IF ~IsOk(t) THEN t
    ELSE IF t.c # dc.in_channels THEN Fail(t, "channels")
    ELSE [t EXCEPT !.c = dc.out_channels,
                   !.h = DeconvOut(t.h, dc.kernel_size, dc.stride, dc.padding, dc.out_padding, dc.dilation),
                   !.w = DeconvOut(t.w, dc.kernel_size, dc.stride, dc.padding, dc.out_padding, dc.dilation)]

MaxPool2dForward(mp, t) ==
    IF ~IsOk(t) THEN t
    ELSE LET oh == ConvOut(t.h, mp.kernel_size, mp.stride, 0, 1)
             ow == ConvOut(t.w, mp.kernel_size, mp.stride, 0, 1)
         IN IF oh < 1 \/ ow < 1 THEN Fail(t, "pool")
            ELSE [t EXCEPT !.h = oh, !.w = ow]

RECURSIVE SumC(_, _)
SumC(outs, k) == IF k = 0 THEN 0 ELSE outs[k].c + SumC(outs, k - 1)

\* torch.cat((a, b, ...), dim=1)
Cat(outs) ==
    IF \E k \in 1..Len(outs) : ~IsOk(outs[k])
    THEN outs[CHOOSE k \in 1..Len(outs) : ~IsOk(outs[k]) /\ \A m \in 1..(k - 1) : IsOk(outs[m])]
    ELSE IF \E k \in 1..Len(outs) :
                outs[k].n # outs[1].n \/ outs[k].h # outs[1].h \/ outs[k].w # outs[1].w
    THEN Fail(outs[1], "cat")
    ELSE [outs[1] EXCEPT !.c = SumC(outs, Len(outs))]

\* torch.stack(outs, dim=1).sum(1)
StackSum(outs) ==
    IF \E k \in 1..Len(outs) : ~IsOk(outs[k])
    THEN outs[CHOOSE k \in 1..Len(outs) : ~IsOk(outs[k]) /\ \A m \in 1..(k - 1) : IsOk(outs[m])]
    ELSE IF \E k \in 1..Len(outs) : outs[k] # outs[1]
    THEN Fail(outs[1], "stack")
    ELSE outs[1]

\* Concurrent: apply every branch to the same input, then merge
ConcurrentForward(cc, t) ==
    LET outs == [k \in 1..Len(cc.branches) |-> ConvBlockForward(cc.branches[k].module, t)]
    IN IF ~IsOk(t) THEN t
       ELSE IF cc.merge_type = "cat" THEN Cat(outs)
       ELSE StackSum(outs)

----------------------------------------------------------------------------
(* FireBlock                                                               *)

\* FireBlock with the squeeze width taken as out_channels // 4
FireBlock_Squeeze4(in_channels, out_channels, bias, use_bn, activation) ==
    LET squeeze_channels == out_channels \div 4
        expand_channels == out_channels \div 2
    IN [kind |-> "fire",
        conv |-> conv1x1_block(in_channels, squeeze_channels, bias, use_bn, activation),
        branches |-> [merge_type |-> "cat",
                      branches |-> add_module(add_module(<<>>,
                          "branch1", conv1x1_block(squeeze_channels, expand_channels, bias, use_bn, FALSE)),
                          "branch2", conv3x3_block(squeeze_channels, expand_channels, 1, 1, 1, bias, use_bn, FALSE))]]

\* FireBlock with the expand width taken as out_channels // 4
FireBlock_Expand4(in_channels, out_channels, bias, use_bn, activation) ==
    LET squeeze_channels == out_channels \div 8
        expand_channels == out_channels \div 4
    IN [kind |-> "fire",
        conv |-> conv1x1_block(in_channels, squeeze_channels, bias, use_bn, activation),
        branches |-> [merge_type |-> "cat",
                      branches |-> add_module(add_module(<<>>,
                          "branch1", conv1x1_block(squeeze_channels, expand_channels, bias, use_bn, FALSE)),
                          "branch2", conv3x3_block(squeeze_channels, expand_channels, 1, 1, 1, bias, use_bn, FALSE))]]

FireBlock(in_channels, out_channels, bias, use_bn, activation) ==
    LET squeeze_channels == out_channels \div 8
        expand_channels == out_channels \div 2
    IN [kind |-> "fire",
        conv |-> conv1x1_block(in_channels, squeeze_channels, bias, use_bn, activation),
        branches |-> [merge_type |-> "cat",
                      branches |-> add_module(add_module(<<>>,
                          "branch1", conv1x1_block(squeeze_channels, expand_channels, bias, use_bn, FALSE)),
                          "branch2", conv3x3_block(squeeze_channels, expand_channels, 1, 1, 1, bias, use_bn, FALSE))]]

FireBlockForward(fb, t) == ConcurrentForward(fb.branches, ConvBlockForward(fb.conv, t))

----------------------------------------------------------------------------
(* ParallelDilatedConv                                                     *)

dilations == <<1, 2, 3, 4>>

\* the branches of ParallelDilatedConv with the default padding of 1
RECURSIVE ParallelBranches_Padding1(_, _, _, _, _, _, _)
ParallelBranches_Padding1(k, in_channels, out_channels, bias, use_bn, activation, branches) ==
    IF k > Len(dilations) THEN branches
    ELSE ParallelBranches_Padding1(k + 1, in_channels, out_channels, bias, use_bn, activation,
            add_module(branches, "branch" \o ToString(k),
                conv3x3_block(in_channels, out_channels, 1, 1, dilations[k],
                              bias, use_bn, activation)))

RECURSIVE ParallelBranches(_, _, _, _, _, _, _)
ParallelBranches(k, in_channels, out_channels, bias, use_bn, activation, branches) ==
    IF k > Len(dilations) THEN branches
    ELSE ParallelBranches(k + 1, in_channels, out_channels, bias, use_bn, activation,
            add_module(branches, "branch" \o ToString(k),
                conv3x3_block(in_channels, out_channels, 1, dilations[k], dilations[k],
                              bias, use_bn, activation)))

ParallelDilatedConv(in_channels, out_channels, bias, use_bn, activation) ==
    [kind |-> "parallel",
     branches |-> [merge_type |-> "sum",
                   branches |-> ParallelBranches(1, in_channels, out_channels, bias, use_bn, activation, <<>>)]]

ParallelDilatedConvForward(pd, t) == ConcurrentForward(pd.branches, t)

----------------------------------------------------------------------------
(* SQNetUpStage                                                            *)

\* SQNetUpStage whose deconvolution keeps the default stride of 1
SQNetUpStage_Stride1(in_channels, out_channels, bias, use_bn, activation, use_parallel) ==
    [kind |-> "upstage",
     conv |-> IF use_parallel
              THEN ParallelDilatedConv(in_channels, in_channels, bias, use_bn, activation)
              ELSE conv3x3_block(in_channels, in_channels, 1, 1, 1, bias, use_bn, activation),
     deconv |-> deconv3x3_block(in_channels, out_channels, 1, bias, use_bn, activation)]

SQNetUpStage(in_channels, out_channels, bias, use_bn, activation, use_parallel) ==
    [kind |-> "upstage",
     conv |-> IF use_parallel
              THEN ParallelDilatedConv(in_channels, in_channels, bias, use_bn, activation)
              ELSE conv3x3_block(in_channels, in_channels, 1, 1, 1, bias, use_bn, activation),
     deconv |-> deconv3x3_block(in_channels, out_channels, 2, bias, use_bn, activation)]

UpStageConvForward(us, t) ==
    IF us.conv.kind = "parallel" THEN ParallelDilatedConvForward(us.conv, t)
    ELSE ConvBlockForward(us.conv, t)

SQNetUpStageForward(us, t) == DeconvBlockForward(us.deconv, UpStageConvForward(us, t))

----------------------------------------------------------------------------
(* SQNet.__init__                                                          *)

bias == TRUE

use_bn == FALSE

\* the activation factory; only whether a block has an activation is kept
activation == TRUE

init_block_channels == 96

\* the channel table with the last decoder width mistyped
channels_LastUp128 == <<<<128, 256, 512>>, <<256, 128, 128>>>>

channels == <<<<128, 256, 512>>, <<256, 128, 96>>>>

\* the repeat table with two fire blocks in the last stage
layers_Short == <<2, 2, 2>>

layers == <<2, 2, 3>>

\* for j in range(layers[i]): add a FireBlock, then in_channels = out_channels
RECURSIVE UnitLoop(_, _, _, _, _)
UnitLoop(jj, count, in_channels, out_channels, stage) ==
    IF jj >= count THEN [stage |-> stage, in_channels |-> in_channels]
    ELSE UnitLoop(jj + 1, count, out_channels, out_channels,
            add_module(stage, "unit" \o ToString(jj + 2),
                FireBlock(in_channels, out_channels, bias, use_bn, activation)))

\* for i, out_channels in enumerate(channels[0]): one skip block and one stage
RECURSIVE DownLoop(_, _, _, _)
DownLoop(ii, in_channels, down_seq, skip_seq) ==
    IF ii >= Len(channels[1])
    THEN [down_seq |-> down_seq, skip_seq |-> skip_seq, in_channels |-> in_channels]
    ELSE LET out_channels == channels[1][ii + 1]
             skip == conv3x3_block(in_channels, in_channels, 1, 1, 1, bias, use_bn, activation)
             r == UnitLoop(0, layers[ii + 1], in_channels, out_channels,
                           add_module(<<>>, "unit1", MaxPool2d(2, 2)))
         IN DownLoop(ii + 1, r.in_channels,
                     add_module(down_seq, "down" \o ToString(ii + 1), r.stage),
                     add_module(skip_seq, "skip" \o ToString(ii + 1), skip))

\* the up-stage loop without the doubling of in_channels
RECURSIVE UpLoop_NoDouble(_, _, _)
UpLoop_NoDouble(ii, in_channels, up_seq) ==
    IF ii >= Len(channels[2])
    THEN [up_seq |-> up_seq, in_channels |-> in_channels]
    ELSE LET out_channels == channels[2][ii + 1]
             use_parallel == (ii = 0)
         IN UpLoop_NoDouble(ii + 1, out_channels,
                   add_module(up_seq, "up" \o ToString(ii + 1),
                       SQNetUpStage(in_channels, out_channels, bias, use_bn, activation,
                                    use_parallel)))

\* for i, out_channels in enumerate(channels[1]): one up stage
RECURSIVE UpLoop(_, _, _)
UpLoop(ii, in_channels, up_seq) ==
    IF ii >= Len(channels[2])
    THEN [up_seq |-> up_seq, in_channels |-> in_channels]
    ELSE LET out_channels == channels[2][ii + 1]
             use_parallel == (ii = 0)
         IN UpLoop(ii + 1, out_channels,
                   add_module(up_seq, "up" \o ToString(ii + 1),
                       SQNetUpStage(2 * in_channels, out_channels, bias, use_bn, activation,
                                    use_parallel)))

\* the up stages left in construction order
Reversed_Identity(seq) == seq

\* up_seq[::-1]
Reversed(seq) == [k \in 1..Len(seq) |-> seq[Len(seq) + 1 - k]]

Hourglass(down_seq, up_seq, skip_seq, merge_type) ==
    [depth |-> Len(down_seq),
     extra_skip |-> (Len(skip_seq) = Len(down_seq) + 1),
     merge_type |-> merge_type,
     down_seq |-> down_seq, up_seq |-> up_seq, skip_seq |-> skip_seq]

\* SQNet whose stem convolution has no padding
SQNet_StemNoPad(aux, fixed_size, in_channels, in_size, num_classes) ==
    LET stem == conv3x3_block(in_channels, init_block_channels, 2, 0, 1, bias, use_bn, activation)
        dn == DownLoop(0, init_block_channels, <<>>, <<>>)
        up == UpLoop(0, dn.in_channels \div 2, <<>>)
    IN [stem |-> stem,
        hg |-> Hourglass(dn.down_seq, Reversed(up.up_seq), dn.skip_seq, "cat"),
        head |-> SQNetUpStage(2 * up.in_channels, num_classes, bias, use_bn, activation, FALSE)]

\* SQNet whose head takes use_parallel from aux
SQNet_AuxParallel(aux, fixed_size, in_channels, in_size, num_classes) ==
    LET stem == conv3x3_block(in_channels, init_block_channels, 2, 1, 1, bias, use_bn, activation)
        dn == DownLoop(0, init_block_channels, <<>>, <<>>)
        up == UpLoop(0, dn.in_channels \div 2, <<>>)
    IN [stem |-> stem,
        hg |-> Hourglass(dn.down_seq, Reversed(up.up_seq), dn.skip_seq, "cat"),
        head |-> SQNetUpStage(2 * up.in_channels, num_classes, bias, use_bn, activation, aux)]

SQNet(aux, fixed_size, in_channels, in_size, num_classes) ==
    LET stem == conv3x3_block(in_channels, init_block_channels, 2, 1, 1, bias, use_bn, activation)
        dn == DownLoop(0, init_block_channels, <<>>, <<>>)
        up == UpLoop(0, dn.in_channels \div 2, <<>>)
    IN [stem |-> stem,
        hg |-> Hourglass(dn.down_seq, Reversed(up.up_seq), dn.skip_seq, "cat"),
        head |-> SQNetUpStage(2 * up.in_channels, num_classes, bias, use_bn, activation, FALSE)]

oth_sqnet_cityscapes(num_classes, pretrained, kwargs) ==
    SQNet(kwargs.aux, kwargs.fixed_size, kwargs.in_channels, kwargs.in_size, num_classes)

\* net = model(pretrained=pretrained, ...)
Build(a) == oth_sqnet_cityscapes(a.num_classes, a.pretrained, a)

----------------------------------------------------------------------------
(* _calc_width: the number of trainable parameters                         *)

BlockParams(b) ==
    b.in_channels * b.out_channels * b.kernel_size * b.kernel_size
    + (IF b.bias THEN b.out_channels ELSE 0)
    + (IF b.use_bn THEN 2 * b.out_channels ELSE 0)

RECURSIVE SeqParams(_, _)
SeqParams(seq, k) == IF k = 0 THEN 0 ELSE BlockParams(seq[k].module) + SeqParams(seq, k - 1)

FireParams(fb) == BlockParams(fb.conv) + SeqParams(fb.branches.branches, Len(fb.branches.branches))

UpStageParams(us) ==
    (IF us.conv.kind = "parallel"
     THEN SeqParams(us.conv.branches.branches, Len(us.conv.branches.branches))
     ELSE BlockParams(us.conv))
    + BlockParams(us.deconv)

RECURSIVE StageParams(_, _)
StageParams(stage, k) ==
    IF k = 0 THEN 0
    ELSE (IF stage[k].module.kind = "fire" THEN FireParams(stage[k].module) ELSE 0)
         + StageParams(stage, k - 1)

RECURSIVE DownParams(_, _)
DownParams(seq, k) ==
    IF k = 0 THEN 0
    ELSE StageParams(seq[k].module, Len(seq[k].module)) + DownParams(seq, k - 1)

RECURSIVE UpParams(_, _)
UpParams(seq, k) == IF k = 0 THEN 0 ELSE UpStageParams(seq[k].module) + UpParams(seq, k - 1)

calc_width(nt) ==
    BlockParams(nt.stem)
    + DownParams(nt.hg.down_seq, Len(nt.hg.down_seq))
    + SeqParams(nt.hg.skip_seq, Len(nt.hg.skip_seq))
    + UpParams(nt.hg.up_seq, Len(nt.hg.up_seq))
    + UpStageParams(nt.head)

----------------------------------------------------------------------------
(* The forward pass: SQNet.forward, Hourglass.forward, nn.Sequential       *)

Entry(mod, sub, tin, mid, out) ==
    [mod |-> mod, sub |-> sub, in |-> tin, mid |-> mid, out |-> out]

\* Hourglass._merge
merge(hg, a, b) == IF hg.merge_type = "cat" THEN Cat(<<a, b>>) ELSE StackSum(<<a, b>>)

DefaultArgs(in_channels, num_classes) ==
    [aux |-> FALSE, fixed_size |-> FALSE, in_channels |-> in_channels,
     in_size |-> <<1024, 2048>>, num_classes |-> num_classes, pretrained |-> FALSE]

AllArgs(in_channels, num_classes) ==
    [aux : BOOLEAN, fixed_size : BOOLEAN, in_channels : {in_channels},
     in_size : InSizes, num_classes : {num_classes}, pretrained : BOOLEAN]

\* the state in which forward is about to be called on a freshly built model
Start(a, inp) ==
    /\ args = a
    /\ net = Build(a)
    /\ input = inp
    /\ x = inp
    /\ down_outs = <<>>
    /\ pc = "stem"
    /\ d = 1
    /\ j = 1
    /\ i = 0
    /\ log = <<>>
    /\ merges = <<>>
    /\ results = <<>>

Init ==
    \E c \in InChannelsSet, k \in NumClassesSet, n \in 1..MaxBatch, h \in 1..MaxH, w \in 1..MaxW :
        /\ Start(DefaultArgs(c, k), Tensor(n, c, h, w))
        /\ todo = <<>>

InitPair ==
    \E c \in {3}, k \in {19}, h \in PairHeights, w \in PairWidths :
        \E a \in AllArgs(c, k), b \in AllArgs(c, k) :
            /\ Start(a, Tensor(1, c, h, w))
            /\ todo = <<b>>

\* x = self.stem(x); Hourglass.forward: down_outs = [x]
Stem ==
    /\ pc = "stem"
    /\ LET out == ConvBlockForward(net.stem, x)
       IN /\ x' = out
          /\ log' = Append(log, Entry("stem", "", x, x, out))
          /\ IF IsOk(out)
             THEN /\ down_outs' = <<out>>
                  /\ pc' = IF net.hg.depth > 0 THEN "down" ELSE "head"
             ELSE /\ pc' = "error"
                  /\ UNCHANGED down_outs
    /\ UNCHANGED <<args, todo, net, input, d, j, i, merges, results>>

\* one unit of the stage down_seq[d]; after the last unit of the stage the
\* stage's output is appended to down_outs
DownUnit ==
    /\ pc = "down"
    /\ LET stage == net.hg.down_seq[d]
           unit == stage.module[j]
           mid == IF unit.module.kind = "fire" THEN ConvBlockForward(unit.module.conv, x) ELSE x
           out == IF unit.module.kind = "fire" THEN FireBlockForward(unit.module, x)
                  ELSE MaxPool2dForward(unit.module, x)
       IN /\ x' = out
          /\ log' = Append(log, Entry(stage.name, unit.name, x, mid, out))
          /\ IF ~IsOk(out)
             THEN pc' = "error" /\ UNCHANGED <<down_outs, d, j>>
             ELSE IF j < Len(stage.module)
             THEN j' = j + 1 /\ UNCHANGED <<down_outs, d, pc>>
             ELSE /\ down_outs' = Append(down_outs, out)
                  /\ IF d < net.hg.depth
                     THEN d' = d + 1 /\ j' = 1 /\ UNCHANGED pc
                     ELSE pc' = "hg_up" /\ UNCHANGED <<d, j>>
    /\ UNCHANGED <<args, todo, net, input, i, merges, results>>

\* if i != 0: y = skip_seq[depth - i](down_outs[depth - i]); x = _merge(x, y)
HgSkip ==
    /\ pc = "hg_skip"
    /\ LET hg == net.hg
           y0 == down_outs[(hg.depth - i) + 1]
           skip == hg.skip_seq[(hg.depth - i) + 1]
           y == ConvBlockForward(skip.module, y0)
           out == merge(hg, x, y)
       IN /\ x' = out
          /\ log' = Append(log, Entry(skip.name, "", y0, y0, y))
          /\ merges' = Append(merges, [i |-> i, skip |-> skip.name, x |-> x, y |-> y, out |-> out])
          /\ pc' = IF ~IsOk(out) THEN "error"
                   ELSE IF i # Len(down_outs) - 1 THEN "hg_up" ELSE "head"
    /\ UNCHANGED <<args, todo, net, input, down_outs, d, j, i, results>>

\* if i != len(down_outs) - 1: x = up_seq[depth - 1 - i](x)
HgUp ==
    /\ pc = "hg_up"
    /\ LET hg == net.hg
           xin == IF i = 0 /\ hg.extra_skip
                  THEN ConvBlockForward(hg.skip_seq[hg.depth + 1].module, x) ELSE x
           up == hg.up_seq[(hg.depth - 1 - i) + 1]
           mid == UpStageConvForward(up.module, xin)
           out == SQNetUpStageForward(up.module, xin)
       IN /\ x' = out
          /\ log' = Append(log, Entry(up.name, "", xin, mid, out))
          /\ pc' = IF IsOk(out) THEN "hg_skip" ELSE "error"
          /\ i' = i + 1
    /\ UNCHANGED <<args, todo, net, input, down_outs, d, j, merges, results>>

\* x = self.head(x); return x
HeadStage ==
    /\ pc = "head"
    /\ LET mid == UpStageConvForward(net.head, x)
           out == SQNetUpStageForward(net.head, x)
       IN /\ x' = out
          /\ log' = Append(log, Entry("head", "", x, mid, out))
          /\ pc' = IF IsOk(out) THEN "done" ELSE "error"
    /\ UNCHANGED <<args, todo, net, input, down_outs, d, j, i, merges, results>>

\* _test: for model in models: build the next model and call it on the batch
NextModel ==
    /\ pc \in {"done", "error"}
    /\ todo # <<>>
    /\ results' = Append(results, [args |-> args, net |-> net, pc |-> pc, y |-> x])
    /\ args' = Head(todo)
    /\ todo' = Tail(todo)
    /\ net' = Build(Head(todo))
    /\ x' = input
    /\ down_outs' = <<>>
    /\ pc' = "stem"
    /\ d' = 1
    /\ j' = 1
    /\ i' = 0
    /\ log' = <<>>
    /\ merges' = <<>>
    /\ UNCHANGED input

Next == Stem \/ DownUnit \/ HgUp \/ HgSkip \/ HeadStage

Spec == Init /\ [][Next]_vars

NextPair == Next \/ NextModel

SpecPair == InitPair /\ [][NextPair]_vars

----------------------------------------------------------------------------
(* Properties                                                              *)

H == input.h

W == input.w

CeilHalf(v) == (v + 1) \div 2

Finished == pc \in {"done", "error"}

Shape(t) == <<t.n, t.c, t.h, t.w>>

SameHW(a, b) == a.h = b.h /\ a.w = b.w

LogNames == [k \in 1..Len(log) |-> log[k].mod]

LogSet == {log[k] : k \in 1..Len(log)}

MergeSet == {merges[k] : k \in 1..Len(merges)}

UpModule(name) ==
    IF name = "head" THEN net.head
    ELSE net.hg.up_seq[CHOOSE k \in 1..Len(net.hg.up_seq) : net.hg.up_seq[k].name = name].module

\* the in_channels an up stage was constructed with
DeclaredIn(us) ==
    IF us.conv.kind = "parallel" THEN us.conv.branches.branches[1].module.in_channels
    ELSE us.conv.in_channels

Multiple16 == H % 16 = 0 /\ W % 16 = 0

StemMultiple8 == CeilHalf(H) % 8 = 0 /\ CeilHalf(W) % 8 = 0

\* C1 (as stated): for any input batch, forward returns a tensor of shape
\* (batch, num_classes, H, W).
C1_AnyInput ==
    Finished => (pc = "done" /\ Shape(x) = <<input.n, args.num_classes, H, W>>)

\* C1 (amended): for any input batch whose height and width are multiples of
\* 16, forward does not fail and returns a tensor of shape
\* (batch, num_classes, H, W).
C1_OutputShape ==
    Multiple16 =>
        /\ pc # "error"
        /\ pc = "done" => (IsOk(x) /\ Shape(x) = <<input.n, args.num_classes, H, W>>)

C1_Witness ==
    /\ pc = "done"
    /\ Multiple16
    /\ input.n = MaxBatch
    /\ Shape(x) = <<MaxBatch, args.num_classes, H, W>>

\* C2: the model built with the default arguments (in_channels = 3,
\* num_classes = 19) has exactly 16262771 trainable parameters.
C2_ParamCount ==
    (args.in_channels = 3 /\ args.num_classes = 19) => calc_width(net) = 16262771

C2_Witness ==
    /\ args = DefaultArgs(3, 19)
    /\ net = oth_sqnet_cityscapes(19, FALSE, args)
    /\ calc_width(net) = 16262771
    /\ pc = "done"

\* C3 (as stated): at every merge point of the hourglass the skip tensor has
\* the same height and width as the decoder tensor it is concatenated with.
C3_EveryMerge == \A m \in MergeSet : SameHW(m.x, m.y)

\* the structure C3 appeals to: skips are size-preserving 3x3 convolutions,
\* every encoder stage has exactly one stride-2 max-pool, every decoder stage
\* exactly one stride-2 deconvolution
C3_Structure ==
    /\ \A k \in 1..Len(net.hg.skip_seq) :
          LET sk == net.hg.skip_seq[k].module
          IN sk.kernel_size = 3 /\ sk.stride = 1 /\ sk.padding = 1 /\ sk.dilation = 1
    /\ \A k \in 1..Len(net.hg.down_seq) :
          LET st == net.hg.down_seq[k].module
          IN Cardinality({u \in 1..Len(st) : st[u].module.kind = "maxpool"}) = 1
             /\ \A u \in 1..Len(st) :
                   st[u].module.kind = "maxpool" =>
                       st[u].module.stride = 2 /\ st[u].module.kernel_size = 2
    /\ \A k \in 1..Len(net.hg.up_seq) :
          LET us == net.hg.up_seq[k].module
          IN us.deconv.kind = "deconv" /\ us.deconv.stride = 2 /\ us.conv.kind # "deconv"

\* C3 (amended): when the stem output's height and width are multiples of 8
\* (in particular when H and W are multiples of 16), at every merge point the
\* skip tensor, a size-preserving 3x3 convolution of the feature map that
\* entered an encoder stage, has the same height and width as the decoder
\* tensor it is concatenated with.
C3_MergeSizes ==
    /\ C3_Structure
    /\ \A e \in LogSet :
          (e.mod \in {"skip1", "skip2", "skip3"} /\ IsOk(e.out)) =>
              /\ SameHW(e.in, e.out)
              /\ \E k \in 1..Len(net.hg.down_seq) :
                    /\ net.hg.skip_seq[k].name = e.mod
                    /\ \E f \in LogSet :
                          f.mod = net.hg.down_seq[k].name /\ f.sub = "unit1" /\ f.in = e.in
    /\ StemMultiple8 => \A m \in MergeSet : IsOk(m.out) /\ SameHW(m.x, m.y)

C3_Witness ==
    /\ pc = "done"
    /\ StemMultiple8
    /\ Len(merges) = 3
    /\ \A m \in MergeSet : SameHW(m.x, m.y) /\ m.x.h > 1

\* the last log entry of an encoder stage, if the stage has run to its end
StageOut(name) ==
    {e \in LogSet : e.mod = name /\ IsOk(e.out)
                    /\ \E k \in 1..Len(net.hg.down_seq) :
                          /\ net.hg.down_seq[k].name = name
                          /\ e.sub = net.hg.down_seq[k].module[Len(net.hg.down_seq[k].module)].name}

NoChannelError(t) == t.err # "channels"

\* C4: along the whole forward pass every layer's declared in_channels equals
\* the channel count of the tensor that reaches it: stem 3->96, encoder
\* stages 96->128, 128->256, 256->512, up1 receives 512, up2 512 = 256+256,
\* up3 256 = 128+128, head 192 = 96+96.
C4_ChannelsMatch ==
    /\ NoChannelError(x)
    /\ \A e \in LogSet : NoChannelError(e.mid) /\ NoChannelError(e.out)
    /\ \A m \in MergeSet : NoChannelError(m.y) /\ NoChannelError(m.out)
    /\ \A e \in LogSet :
          /\ e.mod = "stem" =>
                /\ e.in.c = net.stem.in_channels
                /\ args.in_channels = 3 => e.in.c = 3
                /\ e.out.c = 96
          /\ (e.mod = "down1" /\ e.sub = "unit1") => e.in.c = 96
          /\ (e.mod = "down2" /\ e.sub = "unit1") => e.in.c = 128
          /\ (e.mod = "down3" /\ e.sub = "unit1") => e.in.c = 256
          /\ e.mod = "up1" => e.in.c = 512 /\ DeclaredIn(UpModule("up1")) = 512
          /\ e.mod = "up2" => e.in.c = 512 /\ DeclaredIn(UpModule("up2")) = 512
          /\ e.mod = "up3" => e.in.c = 256 /\ DeclaredIn(UpModule("up3")) = 256
          /\ e.mod = "head" => e.in.c = 192 /\ DeclaredIn(UpModule("head")) = 192
    /\ \A e \in StageOut("down1") : e.out.c = 128
    /\ \A e \in StageOut("down2") : e.out.c = 256
    /\ \A e \in StageOut("down3") : e.out.c = 512
    /\ \A m \in MergeSet :
          /\ m.skip = "skip3" => m.x.c = 256 /\ m.y.c = 256 /\ (IsOk(m.out) => m.out.c = 512)
          /\ m.skip = "skip2" => m.x.c = 128 /\ m.y.c = 128 /\ (IsOk(m.out) => m.out.c = 256)
          /\ m.skip = "skip1" => m.x.c = 96 /\ m.y.c = 96 /\ (IsOk(m.out) => m.out.c = 192)

C4_Witness ==
    /\ pc = "done"
    /\ args.in_channels = 3
    /\ Len(merges) = 3
    /\ merges[3].out.c = 192
    /\ \E e \in LogSet : e.mod = "head" /\ e.in.c = DeclaredIn(net.head)

ExpectedOrder ==
    <<"stem", "down1", "down1", "down1", "down2", "down2", "down2",
      "down3", "down3", "down3", "down3",
      "up1", "skip3", "up2", "skip2", "up3", "skip1", "head">>

\* C5: the encoder stages run in the order down1, down2, down3, then the
\* decoder stages in the order up1 (512->256), up2 (512->128), up3 (256->96);
\* skip3 (on the input of down3) is merged after up1, skip2 (on the input of
\* down2) after up2, skip1 (on the stem output) after up3.
C5_StageOrder ==
    /\ Len(log) <= Len(ExpectedOrder)
    /\ LogNames = SubSeq(ExpectedOrder, 1, Len(log))
    /\ pc = "done" => LogNames = ExpectedOrder
    /\ Len(net.hg.up_seq) = 3
    /\ net.hg.up_seq[1].name = "up3"
    /\ net.hg.up_seq[3].name = "up1"
    /\ DeclaredIn(UpModule("up1")) = 512 /\ UpModule("up1").deconv.out_channels = 256
    /\ DeclaredIn(UpModule("up2")) = 512 /\ UpModule("up2").deconv.out_channels = 128
    /\ DeclaredIn(UpModule("up3")) = 256 /\ UpModule("up3").deconv.out_channels = 96
    /\ \A e \in LogSet :
          /\ e.mod = "skip3" => \E f \in LogSet : f.mod = "down3" /\ f.sub = "unit1" /\ f.in = e.in
          /\ e.mod = "skip2" => \E f \in LogSet : f.mod = "down2" /\ f.sub = "unit1" /\ f.in = e.in
          /\ e.mod = "skip1" => \E f \in LogSet : f.mod = "stem" /\ f.out = e.in
    /\ \A k \in 1..Len(merges) :
          /\ merges[k].skip = <<"skip3", "skip2", "skip1">>[k]
          /\ \E n \in 2..Len(log) :
                /\ log[n].mod = merges[k].skip
                /\ log[n - 1].mod = <<"up1", "up2", "up3">>[k]
                /\ log[n - 1].out = merges[k].x

C5_Witness ==
    /\ pc = "done"
    /\ LogNames = ExpectedOrder
    /\ Len(merges) = 3

\* C6: ParallelDilatedConv applies four 3x3 branches with dilations 1, 2, 3, 4
\* and padding equal to the dilation to the same input, every branch keeps the
\* input height and width, and the sum has out_channels channels and the
\* input's spatial size; in SQNet only up1 uses it, up2, up3 and the head use
\* a single plain 3x3 convolution.
C6_ParallelDilated ==
    /\ \A k \in 1..Len(net.hg.up_seq) :
          (net.hg.up_seq[k].module.conv.kind = "parallel") <=> (net.hg.up_seq[k].name = "up1")
    /\ \A nm \in {"up2", "up3", "head"} :
          /\ UpModule(nm).conv.kind = "conv"
          /\ UpModule(nm).conv.kernel_size = 3
          /\ UpModule(nm).conv.dilation = 1
    /\ LET pd == UpModule("up1").conv
           br == pd.branches.branches
       IN /\ pd.kind = "parallel"
          /\ pd.branches.merge_type = "sum"
          /\ Len(br) = 4
          /\ \A k \in 1..4 :
                /\ br[k].module.kernel_size = 3
                /\ br[k].module.dilation = k
                /\ br[k].module.padding = br[k].module.dilation
                /\ br[k].module.stride = 1
          /\ \A e \in LogSet :
                e.mod = "up1" =>
                    /\ \A k \in 1..4 :
                          LET o == ConvBlockForward(br[k].module, e.in)
                          IN IsOk(o) /\ SameHW(o, e.in) /\ o.c = br[k].module.out_channels
                    /\ e.mid = ParallelDilatedConvForward(pd, e.in)
                    /\ IsOk(e.mid)
                    /\ SameHW(e.mid, e.in)
                    /\ e.mid.c = br[1].module.out_channels
                    /\ e.mid.n = e.in.n

C6_Witness ==
    \E e \in LogSet :
        /\ e.mod = "up1"
        /\ e.in.h = 2
        /\ IsOk(e.mid)
        /\ SameHW(e.mid, e.in)

\* the fire blocks of the network: stage index, unit index, block
FireUnits ==
    {<<k, u>> \in (1..Len(net.hg.down_seq)) \X (1..4) :
        u <= Len(net.hg.down_seq[k].module) /\ net.hg.down_seq[k].module[u].module.kind = "fire"}

\* C7: a FireBlock squeezes with a 1x1 convolution to out_channels // 8
\* channels, feeds two expand convolutions (1x1 and 3x3) of out_channels // 2
\* channels each and concatenates them; in SQNet the squeeze width is smaller
\* than the block's input channel count, the output has out_channels channels
\* and the height and width are unchanged.
C7_FireBlock ==
    /\ \A p \in FireUnits :
          LET fb == net.hg.down_seq[p[1]].module[p[2]].module
              out_channels == channels[1][p[1]]
              br == fb.branches.branches
          IN /\ fb.conv.kernel_size = 1
             /\ fb.conv.out_channels = out_channels \div 8
             /\ fb.conv.out_channels < fb.conv.in_channels
             /\ fb.branches.merge_type = "cat"
             /\ Len(br) = 2
             /\ br[1].module.kernel_size = 1 /\ br[2].module.kernel_size = 3
             /\ \A b \in 1..2 :
                   /\ br[b].module.in_channels = fb.conv.out_channels
                   /\ br[b].module.out_channels = out_channels \div 2
    /\ \A e \in LogSet :
          (e.mod \in {"down1", "down2", "down3"} /\ e.sub # "unit1") =>
              LET k == CHOOSE k \in 1..3 : net.hg.down_seq[k].name = e.mod
              IN /\ IsOk(e.out)
                 /\ e.mid.c = channels[1][k] \div 8
                 /\ e.mid.c < e.in.c
                 /\ e.out.c = channels[1][k]
                 /\ SameHW(e.out, e.in) /\ SameHW(e.mid, e.in)
                 /\ e.out.n = e.in.n

C7_Witness ==
    /\ Cardinality(FireUnits) = 7
    /\ Cardinality({e \in LogSet : e.mod \in {"down1", "down2", "down3"} /\ e.sub # "unit1"
                                   /\ e.out.c = 2 * (e.out.c \div 2) /\ SameHW(e.out, e.in)}) >= 6
    /\ pc = "done"

\* the channel count a fire block produces: the concatenation of its branches
FireOut(fb) == fb.branches.branches[1].module.out_channels + fb.branches.branches[2].module.out_channels

InputOk == StemMultiple8

\* C9 (as stated): when H and W are multiples of 16 forward returns height H
\* and width W; when ceil(H/2) or ceil(W/2) is not a multiple of 8 the
\* concatenation of a decoder tensor with its skip tensor fails and no output
\* is produced; when H (or W) is 16k-1 forward returns H+1 (or W+1).
C9_CatFails ==
    /\ Multiple16 => (pc # "error" /\ (pc = "done" => x.h = H /\ x.w = W))
    /\ ~InputOk =>
          /\ pc # "done"
          /\ pc = "error" =>
                /\ x.err = "cat"
                /\ merges # <<>>
                /\ ~SameHW(merges[Len(merges)].x, merges[Len(merges)].y)
    /\ InputOk =>
          /\ pc # "error"
          /\ (pc = "done" /\ H % 16 = 15) => x.h = H + 1
          /\ (pc = "done" /\ W % 16 = 15) => x.w = W + 1

\* C9 (amended): when H and W are multiples of 16 forward returns height H
\* and width W; when ceil(H/2) or ceil(W/2) is not a multiple of 8 forward
\* fails and no output is produced: a max-pool fails on a feature map of
\* height or width 1 when ceil(H/2) < 8 or ceil(W/2) < 8, otherwise the
\* concatenation of a decoder tensor with its skip tensor of different size
\* fails; when H (or W) is 16k-1 forward returns H+1 (or W+1).
C9_ShapeErrors ==
    /\ Multiple16 => (pc # "error" /\ (pc = "done" => x.h = H /\ x.w = W))
    /\ ~InputOk =>
          /\ pc # "done"
          /\ pc = "error" =>
                IF CeilHalf(H) < 8 \/ CeilHalf(W) < 8
                THEN /\ x.err = "pool"
                     /\ merges = <<>>
                     /\ log[Len(log)].sub = "unit1"
                     /\ (log[Len(log)].in.h = 1 \/ log[Len(log)].in.w = 1)
                ELSE /\ x.err = "cat"
                     /\ merges # <<>>
                     /\ ~SameHW(merges[Len(merges)].x, merges[Len(merges)].y)
    /\ InputOk =>
          /\ pc # "error"
          /\ (pc = "done" /\ H % 16 = 15) => x.h = H + 1
          /\ (pc = "done" /\ W % 16 = 15) => x.w = W + 1

C9_Witness ==
    /\ pc = "error"
    /\ x.err = "cat"
    /\ H > 16
    /\ W % 16 = 15
    /\ Len(merges) = 1
    /\ merges[1].x.h + 1 = merges[1].y.h

\* C10: in_size, aux and fixed_size of SQNet and pretrained of
\* oth_sqnet_cityscapes have no effect: two models built with the same
\* in_channels and num_classes but different values of those arguments have
\* the same layers and parameter count and, for the same input batch, outputs
\* of the same shape; the output's spatial size follows the input tensor, not
\* in_size.
C10_IgnoredArgs ==
    /\ \A k \in 1..Len(results) :
          LET r == results[k]
          IN /\ r.net = net
             /\ calc_width(r.net) = calc_width(net)
             /\ Finished => (r.pc = pc /\ r.y = x)
    /\ pc = "done" => (x.h = 2 * CeilHalf(H) /\ x.w = 2 * CeilHalf(W))
    /\ (pc = "done" /\ args.in_size = <<16, 16>>) => (x.h = 16 <=> H \in {15, 16})
    /\ net = SQNet(FALSE, FALSE, args.in_channels, <<1024, 2048>>, args.num_classes)

C10_Witness ==
    /\ pc = "done"
    /\ Len(results) = 1
    /\ results[1].pc = "done"
    /\ results[1].y = x
    /\ results[1].args.aux # args.aux
    /\ results[1].args.fixed_size # args.fixed_size
    /\ results[1].args.in_size # args.in_size
    /\ results[1].args.pretrained # args.pretrained
    /\ args.in_size # <<x.h, x.w>>

====
